---- MODULE Spec2Model ----
(***************************************************************************)
(* Model of code/main.py of cs224n-squad: the entry point that dispatches  *)
(* on FLAGS.mode (train / show_examples / official_eval), loads            *)
(* checkpoints through initialize_model and, in official_eval mode, runs   *)
(* a single model or an ensemble of num_base_models base models.           *)
(*                                                                         *)
(* Paths are sequences of path components; the empty string is <<>>.       *)
(* Every call of a collaborator (get_glove, QAModel, tf.Session, ...) and  *)
(* every filesystem operation is appended to calls, in program order.      *)
(***************************************************************************)
EXTENDS Integers, Sequences, FiniteSets, TLC

VARIABLES
    FLAGS,            \* the process-wide flag object (main.py:85)
    cmdline,          \* the flag values parsed from the command line
    argv_len,         \* len(unused_argv)
    py_major,         \* sys.version_info[0]
    json_in,          \* uuids of the examples stored in the file json_in_path
    pc,               \* position of main
    err,              \* the exception main ended with, kind "" when none
    dirs0,            \* directories of the training tree that existed at entry
    fs_dirs,          \* directories of the training tree that exist
    created,          \* directories this run created
    fs_files,         \* files this run wrote
    calls,            \* collaborator calls and filesystem operations so far
    sess_open,        \* number of tf.Session objects currently open
    resident,         \* parameters held by the open session
    ckpt,             \* what the last get_checkpoint_state / gfile.Exists saw
    init_args,        \* arguments of the last call of initialize_model
    bestmodel_dir,    \* local of main (main.py:140)
    ema_bestmodel_dir,\* local of main (main.py:142)
    pos_tag_lines,    \* local of main: the lines of pos_tags.txt (main.py:219)
    pos_tag_id_map,   \* local of main (main.py:217)
    ne_tag_id_map,    \* local of main (main.py:223)
    partial_answers,  \* local of main (main.py:234)
    idx,              \* number of checkpoint_dirs already iterated (main.py:235)
    qn_uuid_data,     \* local of main: uuids returned by get_json_data
    answers_dict,     \* local of main: answers_dict / ensemble_answer_dict
    out               \* content of the file json_out_path written by this run

vars == <<FLAGS, cmdline, argv_len, py_major, json_in, pc, err, dirs0, fs_dirs,
          created,
          fs_files, calls, sess_open, resident, ckpt, init_args,
          bestmodel_dir, ema_bestmodel_dir, pos_tag_lines, pos_tag_id_map,
          ne_tag_id_map, partial_answers, idx, qn_uuid_data, answers_dict, out>>

-----------------------------------------------------------------------------
(* Bounds of the model *)

MaxUuids == 2                      \* examples in the input file: 1..MaxUuids
NumAnswers == 2                    \* distinct answer strings a model can give
MaxIncomplete == 1                 \* base models whose records may be incomplete
MaxPosLines == 2                   \* lines of the file pos_tags.txt

-----------------------------------------------------------------------------
(* Constants of the program *)

num_base_models == 7

EXPERIMENTS_DIR == <<"experiments">>
DEFAULT_DATA_DIR == <<"data">>

Modes == {"train", "show_examples", "official_eval", "interactive"}
SingleEnsembleValues == {"", "single", "ensemble"}

Uuids == 1..MaxUuids
Answers == 1..NumAnswers
NoDict == <<>>                     \* "no mapping yet": a function with empty domain

os_path_join(a, b) == a \o b

\* {}: a dict without entries
EmptyDict == [k \in {} |-> 0]

\* d[key] = value
DictSet(d, key, value) ==
    [k \in (DOMAIN d) \cup {key} |-> IF k = key THEN value ELSE d[k]]

\* s[:-1] of a string, a string being the sequence of its characters
DropLast(s) == SubSeq(s, 1, Len(s) - 1)

\* all_NE_tag
all_NE_tag ==
    <<"B-FACILITY", "B-GPE", "B-GSP", "B-LOCATION", "B-ORGANIZATION", "B-PERSON",
      "I-FACILITY", "I-GPE", "I-GSP", "I-LOCATION", "I-ORGANIZATION", "I-PERSON",
      "O">>

\* the files pos_tags.txt of the model: MaxPosLines lines, line k holding the
\* tag "Tk", every line ended by a newline except possibly the last
PosTag(k) == <<"T", ToString(k)>>

PosTagFiles ==
    { [k \in 1..MaxPosLines |->
          IF k < MaxPosLines \/ nl THEN PosTag(k) \o <<"\n">> ELSE PosTag(k)] :
      nl \in BOOLEAN }

-----------------------------------------------------------------------------
(* Records of the model *)

NoErr == [kind |-> "", dir |-> <<>>]
Exception(kind, dir) == [kind |-> kind, dir |-> dir]

NoParams == [kind |-> "none", vars |-> "", dir |-> <<>>]
Uninitialized == [kind |-> "uninitialized", vars |-> "", dir |-> <<>>]
Fresh == [kind |-> "fresh", vars |-> "", dir |-> <<>>]
Restored(v, d) == [kind |-> "restored", vars |-> v, dir |-> d]

Call(op, arg) == [op |-> op, arg |-> arg]

\* what tf.train.get_checkpoint_state and tf.gfile.Exists can find in a directory
CkptStates ==
    { [state |-> FALSE, data |-> FALSE, index |-> FALSE] } \cup
    [state : {TRUE}, data : BOOLEAN, index : BOOLEAN]
NoCkpt == [state |-> FALSE, data |-> FALSE, index |-> FALSE]

\* a directory this run created, or a directory of the training tree that does
\* not exist, holds no checkpoint; any other directory can hold anything
TrainTree == {FLAGS.train_dir, bestmodel_dir, ema_bestmodel_dir}
CkptOutcomes(dir) ==
    IF dir \in created \/ (dir \in TrainTree /\ dir \notin fs_dirs)
    THEN {NoCkpt}
    ELSE CkptStates

-----------------------------------------------------------------------------
(* Initial states: every combination of flags and environment *)

\* variant of TrainDirOf without the "FLAGS.train_dir or"
TrainDirOf_IgnoresGiven(train_dir, experiment_name) ==
    os_path_join(EXPERIMENTS_DIR, experiment_name)

TrainDirOf(train_dir, experiment_name) ==
    IF train_dir # <<>> THEN train_dir
    ELSE os_path_join(EXPERIMENTS_DIR, experiment_name)

\* the sets of existing directories of the training tree rooted at t
DirStates(t) ==
    { {}, {t}, {t, os_path_join(t, <<"best_checkpoint">>)},
      {t, os_path_join(t, <<"ema_best_checkpoint">>)},
      {t, os_path_join(t, <<"best_checkpoint">>),
          os_path_join(t, <<"ema_best_checkpoint">>)} }

FlagValues ==
    [ mode : Modes,
      experiment_name : {<<>>, <<"exp">>},
      train_dir : {<<>>, <<"td">>},
      glove_path : {<<>>, <<"glove.txt">>},
      data_dir : {DEFAULT_DATA_DIR},
      main_dir : {<<".">>},
      embedding_size : {300},
      ckpt_load_dir : {<<>>, <<"ckpts">>},
      json_in_path : {<<>>, <<"in.json">>},
      json_out_path : {<<"predictions.json">>},
      single_ensemble : SingleEnsembleValues,
      load_ema_checkpoint : BOOLEAN ]

Init ==
    /\ FLAGS \in FlagValues
    /\ cmdline = FLAGS
    /\ argv_len \in {1, 2}
    /\ py_major \in {2, 3}
    /\ json_in \in { 1..n : n \in 1..MaxUuids }
    /\ pc = "main"
    /\ err = NoErr
    /\ fs_dirs \in DirStates(TrainDirOf(FLAGS.train_dir, FLAGS.experiment_name))
    /\ dirs0 = fs_dirs
    /\ created = {}
    /\ fs_files = {}
    /\ calls = <<>>
    /\ sess_open = 0
    /\ resident = NoParams
    /\ ckpt = NoCkpt
    /\ init_args = [train_dir |-> <<>>, expect_exists |-> FALSE]
    /\ bestmodel_dir = <<>>
    /\ ema_bestmodel_dir = <<>>
    /\ pos_tag_lines = <<>>
    /\ pos_tag_id_map = EmptyDict
    /\ ne_tag_id_map = EmptyDict
    /\ partial_answers = <<>>
    /\ idx = 0
    /\ qn_uuid_data = {}
    /\ answers_dict = NoDict
    /\ out = NoDict

-----------------------------------------------------------------------------
(* Helpers shared by the steps of main *)

Log(entries) == calls' = calls \o entries

\* raise Exception(...): main stops at this statement
Raise(kind, dir) ==
    /\ pc' = "error"
    /\ err' = Exception(kind, dir)

UNCHANGED_env == UNCHANGED <<cmdline, argv_len, py_major, json_in, dirs0>>
UNCHANGED_fs == UNCHANGED <<fs_dirs, created, fs_files, out>>
UNCHANGED_session == UNCHANGED <<sess_open, resident, ckpt, init_args>>
UNCHANGED_tags == UNCHANGED <<pos_tag_lines, pos_tag_id_map, ne_tag_id_map>>
UNCHANGED_locals ==
    /\ UNCHANGED <<bestmodel_dir, ema_bestmodel_dir, partial_answers, idx,
                   qn_uuid_data, answers_dict>>
    /\ UNCHANGED_tags

-----------------------------------------------------------------------------
(* main, lines 122-160: the steps common to every mode *)

\* if len(unused_argv) != 1: raise
CheckArgv ==
    /\ pc = "main"
    /\ IF argv_len # 1
       THEN Raise("BadFlags", <<>>)
       ELSE pc' = "check_python" /\ err' = err
    /\ UNCHANGED <<FLAGS, calls>>
    /\ UNCHANGED_env /\ UNCHANGED_fs /\ UNCHANGED_session /\ UNCHANGED_locals

\* if sys.version_info[0] != 3: raise
CheckPython ==
    /\ pc = "check_python"
    /\ IF py_major # 3
       THEN Raise("NotPython3", <<>>)
       ELSE pc' = "define_train_dir" /\ err' = err
    /\ UNCHANGED <<FLAGS, calls>>
    /\ UNCHANGED_env /\ UNCHANGED_fs /\ UNCHANGED_session /\ UNCHANGED_locals

\* the check of experiment_name / train_dir, the assignment of FLAGS.train_dir
\* and the two best-checkpoint directory names
\* variant of NoTrainDirGiven with the mode test inverted
NoTrainDirGiven_ModeInverted ==
    /\ FLAGS.experiment_name = <<>> /\ FLAGS.train_dir = <<>>
    /\ FLAGS.mode = "official_eval"

\* the condition of line 135
NoTrainDirGiven ==
    /\ FLAGS.experiment_name = <<>> /\ FLAGS.train_dir = <<>>
    /\ FLAGS.mode # "official_eval"

DefineTrainDir ==
    /\ pc = "define_train_dir"
    /\ IF NoTrainDirGiven
       THEN /\ Raise("NeedExperimentNameOrTrainDir", <<>>)
            /\ UNCHANGED <<FLAGS, bestmodel_dir, ema_bestmodel_dir>>
       ELSE /\ FLAGS' = [FLAGS EXCEPT !.train_dir =
                            TrainDirOf(FLAGS.train_dir, FLAGS.experiment_name)]
            /\ bestmodel_dir' =
                   os_path_join(FLAGS'.train_dir, <<"best_checkpoint">>)
            /\ ema_bestmodel_dir' =
                   os_path_join(FLAGS'.train_dir, <<"ema_best_checkpoint">>)
            /\ pc' = "get_glove" /\ err' = err
    /\ UNCHANGED <<calls, partial_answers, idx, qn_uuid_data, answers_dict>>
    /\ UNCHANGED_env /\ UNCHANGED_fs /\ UNCHANGED_session
    /\ UNCHANGED_tags

\* FLAGS.glove_path default, then get_glove reads the embedding file
LoadGlove ==
    /\ pc = "get_glove"
    /\ FLAGS' = [FLAGS EXCEPT !.glove_path =
                    IF FLAGS.glove_path # <<>> THEN FLAGS.glove_path
                    ELSE os_path_join(DEFAULT_DATA_DIR, <<"glove.42B.300d.txt">>)]
    /\ Log(<<Call("get_glove", FLAGS'.glove_path)>>)
    /\ pc' = "build_model"
    /\ UNCHANGED err
    /\ UNCHANGED_env /\ UNCHANGED_fs /\ UNCHANGED_session /\ UNCHANGED_locals

\* qa_model = QAModel(FLAGS, id2word, word2id, emb_matrix)
BuildModel ==
    /\ pc = "build_model"
    /\ Log(<<Call("QAModel", <<>>)>>)
    /\ pc' = "dispatch"
    /\ UNCHANGED <<FLAGS, err>>
    /\ UNCHANGED_env /\ UNCHANGED_fs /\ UNCHANGED_session /\ UNCHANGED_locals

\* if FLAGS.mode == "train" ... elif ... else: raise
Dispatch ==
    /\ pc = "dispatch"
    /\ CASE FLAGS.mode = "train" -> pc' = "train_mkdir" /\ err' = err
         [] FLAGS.mode = "show_examples" -> pc' = "show_open" /\ err' = err
         [] FLAGS.mode = "official_eval" -> pc' = "eval_check" /\ err' = err
         [] OTHER -> Raise("UnexpectedMode", <<>>)
    /\ UNCHANGED <<FLAGS, calls>>
    /\ UNCHANGED_env /\ UNCHANGED_fs /\ UNCHANGED_session /\ UNCHANGED_locals

-----------------------------------------------------------------------------
(* tf.Session used as a context manager, and initialize_model *)

\* with tf.Session(config=config) as sess:
OpenSession(next) ==
    /\ sess_open' = sess_open + 1
    /\ resident' = Uninitialized
    /\ Log(<<Call("Session", <<>>)>>)
    /\ pc' = next

\* leaving the with block: the session is closed and its variables are gone
CloseSession ==
    /\ sess_open' = sess_open - 1
    /\ resident' = NoParams

\* variant of CheckpointFound that tests the state record only
CheckpointFound_StateRecordOnly(ck) == ck.state

\* the condition of line 103
CheckpointFound(ck) == ck.state /\ (ck.data \/ ck.index)

\* variant of initialize_model that never looks at expect_exists: a missing
\* checkpoint always leads to fresh parameters
initialize_model_IgnoresExpectExists(train_dir, expect_exists, ret) ==
    \E ck \in CkptOutcomes(train_dir) :
        /\ ckpt' = ck
        /\ init_args' = [train_dir |-> train_dir, expect_exists |-> expect_exists]
        /\ IF CheckpointFound(ck)
           THEN /\ resident' =
                      Restored(IF FLAGS.load_ema_checkpoint THEN "ema" ELSE "raw",
                               train_dir)
                /\ Log(<<Call("get_checkpoint_state", train_dir),
                         Call("restore", train_dir)>>)
           ELSE /\ resident' = Fresh
                /\ Log(<<Call("get_checkpoint_state", train_dir),
                         Call("global_variables_initializer", <<>>)>>)
        /\ pc' = ret /\ err' = err
        /\ UNCHANGED sess_open

\* initialize_model(session, model, train_dir, expect_exists); ret is the
\* statement that follows the call
initialize_model(train_dir, expect_exists, ret) ==
    \E ck \in CkptOutcomes(train_dir) :
        /\ ckpt' = ck
        /\ init_args' = [train_dir |-> train_dir, expect_exists |-> expect_exists]
        /\ IF CheckpointFound(ck)
           THEN /\ resident' =
                      Restored(IF FLAGS.load_ema_checkpoint THEN "ema" ELSE "raw",
                               train_dir)
                /\ Log(<<Call("get_checkpoint_state", train_dir),
                         Call("restore", train_dir)>>)
                /\ pc' = ret /\ err' = err
           ELSE IF expect_exists
                THEN /\ pc' = "unwind"
                     /\ err' = Exception("NoCheckpoint", train_dir)
                     /\ Log(<<Call("get_checkpoint_state", train_dir)>>)
                     /\ resident' = resident
                ELSE /\ resident' = Fresh
                     /\ Log(<<Call("get_checkpoint_state", train_dir),
                              Call("global_variables_initializer", <<>>)>>)
                     /\ pc' = ret /\ err' = err
        /\ UNCHANGED sess_open

\* variant of Unwind for a session that is not a context manager
Unwind_LeavesSessionOpen ==
    /\ pc = "unwind"
    /\ pc' = "error"
    /\ UNCHANGED <<FLAGS, err, calls>>
    /\ UNCHANGED_env /\ UNCHANGED_fs /\ UNCHANGED_session /\ UNCHANGED_locals

\* an exception leaves the with block of the session it was raised in
Unwind ==
    /\ pc = "unwind"
    /\ CloseSession
    /\ pc' = "error"
    /\ UNCHANGED <<FLAGS, err, calls, ckpt, init_args>>
    /\ UNCHANGED_env /\ UNCHANGED_fs /\ UNCHANGED_locals

-----------------------------------------------------------------------------
(* main, lines 167-192: train mode *)

\* if not os.path.exists(FLAGS.train_dir): os.makedirs(FLAGS.train_dir)
MakeDirIfAbsent(dir) ==
    IF dir \in fs_dirs
    THEN UNCHANGED <<fs_dirs, created>> /\ Log(<<Call("exists", dir)>>)
    ELSE /\ fs_dirs' = fs_dirs \cup {dir}
         /\ created' = created \cup {dir}
         /\ Log(<<Call("exists", dir), Call("makedirs", dir)>>)

TrainMakeDir ==
    /\ pc = "train_mkdir"
    /\ MakeDirIfAbsent(FLAGS.train_dir)
    /\ pc' = "train_logfile"
    /\ UNCHANGED <<FLAGS, err, fs_files, out>>
    /\ UNCHANGED_env /\ UNCHANGED_session /\ UNCHANGED_locals

\* logging.FileHandler(os.path.join(FLAGS.train_dir, "log.txt"))
TrainLogFile ==
    /\ pc = "train_logfile"
    /\ fs_files' = fs_files \cup {os_path_join(FLAGS.train_dir, <<"log.txt">>)}
    /\ Log(<<Call("FileHandler", os_path_join(FLAGS.train_dir, <<"log.txt">>))>>)
    /\ pc' = "train_flags"
    /\ UNCHANGED <<FLAGS, err, fs_dirs, created, out>>
    /\ UNCHANGED_env /\ UNCHANGED_session /\ UNCHANGED_locals

\* json.dump(FLAGS.__flags, fout) into train_dir/flags.json
TrainSaveFlags ==
    /\ pc = "train_flags"
    /\ fs_files' = fs_files \cup {os_path_join(FLAGS.train_dir, <<"flags.json">>)}
    /\ Log(<<Call("write", os_path_join(FLAGS.train_dir, <<"flags.json">>))>>)
    /\ pc' = "train_bestdir"
    /\ UNCHANGED <<FLAGS, err, fs_dirs, created, out>>
    /\ UNCHANGED_env /\ UNCHANGED_session /\ UNCHANGED_locals

TrainMakeBestDir ==
    /\ pc = "train_bestdir"
    /\ MakeDirIfAbsent(bestmodel_dir)
    /\ pc' = "train_emadir"
    /\ UNCHANGED <<FLAGS, err, fs_files, out>>
    /\ UNCHANGED_env /\ UNCHANGED_session /\ UNCHANGED_locals

TrainMakeEmaDir ==
    /\ pc = "train_emadir"
    /\ MakeDirIfAbsent(ema_bestmodel_dir)
    /\ pc' = "train_open"
    /\ UNCHANGED <<FLAGS, err, fs_files, out>>
    /\ UNCHANGED_env /\ UNCHANGED_session /\ UNCHANGED_locals

TrainOpenSession ==
    /\ pc = "train_open"
    /\ OpenSession("train_init")
    /\ UNCHANGED <<FLAGS, err, ckpt, init_args>>
    /\ UNCHANGED_env /\ UNCHANGED_fs /\ UNCHANGED_locals

\* variant of TrainInitialize with expect_exists=True
TrainInitialize_Required ==
    /\ pc = "train_init"
    /\ initialize_model(FLAGS.train_dir, TRUE, "train_run")
    /\ UNCHANGED FLAGS
    /\ UNCHANGED_env /\ UNCHANGED_fs /\ UNCHANGED_locals

\* initialize_model(sess, qa_model, FLAGS.train_dir, expect_exists=False)
TrainInitialize ==
    /\ pc = "train_init"
    /\ initialize_model(FLAGS.train_dir, FALSE, "train_run")
    /\ UNCHANGED FLAGS
    /\ UNCHANGED_env /\ UNCHANGED_fs /\ UNCHANGED_locals

\* qa_model.train(...), then the with block ends
TrainRun ==
    /\ pc = "train_run"
    /\ Log(<<Call("train", resident.dir)>>)
    /\ CloseSession
    /\ pc' = "done"
    /\ UNCHANGED <<FLAGS, err, ckpt, init_args>>
    /\ UNCHANGED_env /\ UNCHANGED_fs /\ UNCHANGED_locals

-----------------------------------------------------------------------------
(* main, lines 195-207: show_examples mode *)

\* variant of ShowOpenSession that first attaches the log file of the run
ShowOpenSession_WithLogFile ==
    /\ pc = "show_open"
    /\ sess_open' = sess_open + 1
    /\ resident' = Uninitialized
    /\ fs_files' = fs_files \cup {os_path_join(FLAGS.train_dir, <<"log.txt">>)}
    /\ Log(<<Call("FileHandler", os_path_join(FLAGS.train_dir, <<"log.txt">>)),
             Call("Session", <<>>)>>)
    /\ pc' = "show_init"
    /\ UNCHANGED <<FLAGS, err, ckpt, init_args, fs_dirs, created, out>>
    /\ UNCHANGED_env /\ UNCHANGED_locals

ShowOpenSession ==
    /\ pc = "show_open"
    /\ OpenSession("show_init")
    /\ UNCHANGED <<FLAGS, err, ckpt, init_args>>
    /\ UNCHANGED_env /\ UNCHANGED_fs /\ UNCHANGED_locals

\* variant of ShowInitialize with expect_exists=False
ShowInitialize_NotRequired ==
    /\ pc = "show_init"
    /\ IF FLAGS.load_ema_checkpoint
       THEN initialize_model(ema_bestmodel_dir, FALSE, "show_run")
       ELSE initialize_model(bestmodel_dir, FALSE, "show_run")
    /\ UNCHANGED FLAGS
    /\ UNCHANGED_env /\ UNCHANGED_fs /\ UNCHANGED_locals

\* variant of ShowInitialize that always reads best_checkpoint
ShowInitialize_AlwaysBestmodelDir ==
    /\ pc = "show_init"
    /\ initialize_model(bestmodel_dir, TRUE, "show_run")
    /\ UNCHANGED FLAGS
    /\ UNCHANGED_env /\ UNCHANGED_fs /\ UNCHANGED_locals

\* the directory is chosen by FLAGS.load_ema_checkpoint
ShowInitialize ==
    /\ pc = "show_init"
    /\ IF FLAGS.load_ema_checkpoint
       THEN initialize_model(ema_bestmodel_dir, TRUE, "show_run")
       ELSE initialize_model(bestmodel_dir, TRUE, "show_run")
    /\ UNCHANGED FLAGS
    /\ UNCHANGED_env /\ UNCHANGED_fs /\ UNCHANGED_locals

\* qa_model.check_f1_em(...), then the with block ends
ShowRun ==
    /\ pc = "show_run"
    /\ Log(<<Call("check_f1_em", resident.dir)>>)
    /\ CloseSession
    /\ pc' = "done"
    /\ UNCHANGED <<FLAGS, err, ckpt, init_args>>
    /\ UNCHANGED_env /\ UNCHANGED_fs /\ UNCHANGED_locals

-----------------------------------------------------------------------------
(* main, lines 210-283: official_eval mode *)

\* the conditions of lines 211 and 213
NoJsonInPath == FLAGS.json_in_path = <<>>

\* variant of NoCkptLoadDir that tests json_in_path a second time
NoCkptLoadDir_TestsJsonInPath == FLAGS.json_in_path = <<>>

NoCkptLoadDir == FLAGS.ckpt_load_dir = <<>>

\* the two checks of lines 211-214
EvalCheckPaths ==
    /\ pc = "eval_check"
    /\ IF NoJsonInPath
       THEN Raise("NeedJsonInPath", <<>>)
       ELSE IF NoCkptLoadDir
            THEN Raise("NeedCkptLoadDir", <<>>)
            ELSE pc' = "eval_tags" /\ err' = err
    /\ UNCHANGED <<FLAGS, calls>>
    /\ UNCHANGED_env /\ UNCHANGED_fs /\ UNCHANGED_session /\ UNCHANGED_locals

\* for i in range(len(pos_tag_lines)): pos_tag_id_map[pos_tag_lines[i][:-1]] = i + 1
RECURSIVE PosTagIdMap(_, _, _)
PosTagIdMap(lines, i, map) ==
    IF i > Len(lines) THEN map
    ELSE PosTagIdMap(lines, i + 1, DictSet(map, DropLast(lines[i]), i))

\* for i in range(len(all_NE_tag)): ne_tag_id_map[all_NE_tag[i]] = i + 1
RECURSIVE NeTagIdMap(_, _)
NeTagIdMap(i, map) ==
    IF i > Len(all_NE_tag) THEN map
    ELSE NeTagIdMap(i + 1, DictSet(map, all_NE_tag[i], i))

\* pos_tag_id_map is read from main_dir/pos_tags.txt, ne_tag_id_map is built
EvalBuildTagMaps ==
    /\ pc = "eval_tags"
    /\ \E file \in PosTagFiles :
          /\ pos_tag_lines' = file
          /\ pos_tag_id_map' = PosTagIdMap(file, 1, EmptyDict)
    /\ ne_tag_id_map' = NeTagIdMap(1, EmptyDict)
    /\ Log(<<Call("open", os_path_join(FLAGS.main_dir, <<"pos_tags.txt">>))>>)
    /\ pc' = "eval_branch"
    /\ UNCHANGED <<FLAGS, err, bestmodel_dir, ema_bestmodel_dir, partial_answers,
                   idx, qn_uuid_data, answers_dict>>
    /\ UNCHANGED_env /\ UNCHANGED_fs /\ UNCHANGED_session

\* variant of EvalBranch without the assert of line 262
EvalBranch_NoAssert ==
    /\ pc = "eval_branch"
    /\ IF FLAGS.single_ensemble = "ensemble"
       THEN /\ partial_answers' = <<>> /\ idx' = 0
            /\ pc' = "ens_loop" /\ err' = err
       ELSE /\ UNCHANGED <<partial_answers, idx>>
            /\ pc' = "single_read" /\ err' = err
    /\ UNCHANGED <<FLAGS, calls, bestmodel_dir, ema_bestmodel_dir,
                   qn_uuid_data, answers_dict>>
    /\ UNCHANGED_env /\ UNCHANGED_fs /\ UNCHANGED_session
    /\ UNCHANGED_tags

\* if FLAGS.single_ensemble == "ensemble": ... else: assert ... == "single"
EvalBranch ==
    /\ pc = "eval_branch"
    /\ IF FLAGS.single_ensemble = "ensemble"
       THEN /\ partial_answers' = <<>> /\ idx' = 0
            /\ pc' = "ens_loop" /\ err' = err
       ELSE /\ UNCHANGED <<partial_answers, idx>>
            /\ IF FLAGS.single_ensemble = "single"
               THEN pc' = "single_read" /\ err' = err
               ELSE Raise("AssertionError", <<>>)
    /\ UNCHANGED <<FLAGS, calls, bestmodel_dir, ema_bestmodel_dir,
                   qn_uuid_data, answers_dict>>
    /\ UNCHANGED_env /\ UNCHANGED_fs /\ UNCHANGED_session
    /\ UNCHANGED_tags

\* variant of NumCheckpointDirs for range(1, num_base_models)
NumCheckpointDirs_OneShort == num_base_models - 1

\* len(checkpoint_dirs): i ranges over range(1, num_base_models+1)
NumCheckpointDirs == num_base_models

\* variant of checkpoint_dirs for range(num_base_models): names end in 0..6
checkpoint_dirs_FromZero(i) ==
    os_path_join(FLAGS.ckpt_load_dir,
                 <<"ema_best_checkpoint_" \o ToString(i - 1)>>)

\* checkpoint_dirs[i - 1], i in 1..num_base_models
checkpoint_dirs(i) ==
    os_path_join(FLAGS.ckpt_load_dir, <<"ema_best_checkpoint_" \o ToString(i)>>)

\* what generate_partial_answers returns: the records of one base model,
\* computed from the parameters resident in the session for the given uuids
generate_partial_answers(params, uuids) ==
    [model |-> params.dir, vars |-> params.vars, kind |-> params.kind,
     uuids |-> uuids]

\* for base_model_dir in checkpoint_dirs: get_json_data, Batcher
EnsembleRead ==
    /\ pc = "ens_loop"
    /\ idx < NumCheckpointDirs
    /\ qn_uuid_data' = json_in
    /\ Log(<<Call("get_json_data", FLAGS.json_in_path),
             Call("Batcher", os_path_join(FLAGS.data_dir, <<"elmo_voca.txt">>))>>)
    /\ pc' = "ens_open"
    /\ UNCHANGED <<FLAGS, err, bestmodel_dir, ema_bestmodel_dir,
                   partial_answers, idx, answers_dict>>
    /\ UNCHANGED_env /\ UNCHANGED_fs /\ UNCHANGED_session
    /\ UNCHANGED_tags

EnsembleOpenSession ==
    /\ pc = "ens_open"
    /\ OpenSession("ens_init")
    /\ UNCHANGED <<FLAGS, err, ckpt, init_args>>
    /\ UNCHANGED_env /\ UNCHANGED_fs /\ UNCHANGED_locals

\* variant of EnsembleInitialize with expect_exists=False
EnsembleInitialize_NotRequired ==
    /\ pc = "ens_init"
    /\ initialize_model(checkpoint_dirs(idx + 1), FALSE, "ens_infer")
    /\ UNCHANGED FLAGS
    /\ UNCHANGED_env /\ UNCHANGED_fs /\ UNCHANGED_locals

\* initialize_model(sess, qa_model, base_model_dir, expect_exists=True)
EnsembleInitialize ==
    /\ pc = "ens_init"
    /\ initialize_model(checkpoint_dirs(idx + 1), TRUE, "ens_infer")
    /\ UNCHANGED FLAGS
    /\ UNCHANGED_env /\ UNCHANGED_fs /\ UNCHANGED_locals

\* variant of EnsembleInfer that also dumps the partial answers into the output
\* file
EnsembleInfer_WritesPartial ==
    /\ pc = "ens_infer"
    /\ partial_answers' =
           Append(partial_answers, generate_partial_answers(resident, qn_uuid_data))
    /\ Log(<<Call("generate_partial_answers", resident.dir),
             Call("write", FLAGS.json_out_path)>>)
    /\ fs_files' = fs_files \cup {FLAGS.json_out_path}
    /\ CloseSession
    /\ idx' = idx + 1
    /\ pc' = "ens_loop"
    /\ UNCHANGED <<FLAGS, err, ckpt, init_args, bestmodel_dir, ema_bestmodel_dir,
                   qn_uuid_data, answers_dict, fs_dirs, created, out>>
    /\ UNCHANGED_env
    /\ UNCHANGED_tags

\* partial_answers.append(generate_partial_answers(...)), the with block ends
\* and the loop moves to the next directory
EnsembleInfer ==
    /\ pc = "ens_infer"
    /\ partial_answers' =
           Append(partial_answers, generate_partial_answers(resident, qn_uuid_data))
    /\ Log(<<Call("generate_partial_answers", resident.dir)>>)
    /\ CloseSession
    /\ idx' = idx + 1
    /\ pc' = "ens_loop"
    /\ UNCHANGED <<FLAGS, err, ckpt, init_args, bestmodel_dir, ema_bestmodel_dir,
                   qn_uuid_data, answers_dict>>
    /\ UNCHANGED_env /\ UNCHANGED_fs
    /\ UNCHANGED_tags

\* the mappings generate_ensemble_answers can return: one final answer for
\* every uuid of the batch it is given
generate_ensemble_answers(uuids, partial) == [uuids -> Answers]

\* after the loop: the batch is read again and generate_ensemble_answers
\* merges the partial answers into one answer per uuid
EnsembleAggregate ==
    /\ pc = "ens_loop"
    /\ idx = NumCheckpointDirs
    /\ qn_uuid_data' = json_in
    /\ \E d \in generate_ensemble_answers(json_in, partial_answers) :
          answers_dict' = d
    /\ Log(<<Call("get_json_data", FLAGS.json_in_path),
             Call("Batcher", os_path_join(FLAGS.data_dir, <<"elmo_voca.txt">>)),
             Call("generate_ensemble_answers", <<>>)>>)
    /\ pc' = "ens_write"
    /\ UNCHANGED <<FLAGS, err, bestmodel_dir, ema_bestmodel_dir,
                   partial_answers, idx>>
    /\ UNCHANGED_env /\ UNCHANGED_fs /\ UNCHANGED_session
    /\ UNCHANGED_tags

\* f.write(str(json.dumps(ensemble_answer_dict, ensure_ascii=False)))
EnsembleWrite ==
    /\ pc = "ens_write"
    /\ out' = answers_dict
    /\ fs_files' = fs_files \cup {FLAGS.json_out_path}
    /\ Log(<<Call("write", FLAGS.json_out_path)>>)
    /\ pc' = "done"
    /\ UNCHANGED <<FLAGS, err, fs_dirs, created>>
    /\ UNCHANGED_env /\ UNCHANGED_session /\ UNCHANGED_locals

\* single model: Batcher, then get_json_data
SingleRead ==
    /\ pc = "single_read"
    /\ qn_uuid_data' = json_in
    /\ Log(<<Call("Batcher", os_path_join(FLAGS.data_dir, <<"elmo_voca.txt">>)),
             Call("get_json_data", FLAGS.json_in_path)>>)
    /\ pc' = "single_open"
    /\ UNCHANGED <<FLAGS, err, bestmodel_dir, ema_bestmodel_dir,
                   partial_answers, idx, answers_dict>>
    /\ UNCHANGED_env /\ UNCHANGED_fs /\ UNCHANGED_session
    /\ UNCHANGED_tags

SingleOpenSession ==
    /\ pc = "single_open"
    /\ OpenSession("single_init")
    /\ UNCHANGED <<FLAGS, err, ckpt, init_args>>
    /\ UNCHANGED_env /\ UNCHANGED_fs /\ UNCHANGED_locals

\* variant of SingleInitialize with expect_exists=False
SingleInitialize_NotRequired ==
    /\ pc = "single_init"
    /\ initialize_model(
           os_path_join(FLAGS.ckpt_load_dir, <<"ema_best_checkpoint_1">>),
           FALSE, "single_infer")
    /\ UNCHANGED FLAGS
    /\ UNCHANGED_env /\ UNCHANGED_fs /\ UNCHANGED_locals

\* checkpoint_dir = ckpt_load_dir/ema_best_checkpoint_1, expect_exists=True
SingleInitialize ==
    /\ pc = "single_init"
    /\ initialize_model(
           os_path_join(FLAGS.ckpt_load_dir, <<"ema_best_checkpoint_1">>),
           TRUE, "single_infer")
    /\ UNCHANGED FLAGS
    /\ UNCHANGED_env /\ UNCHANGED_fs /\ UNCHANGED_locals

\* the mappings generate_answers can return: one answer for every uuid of the
\* batch it is given
generate_answers(uuids) == [uuids -> Answers]

\* variant of SingleInfer that passes only the first example of the batch
SingleInfer_FirstExampleOnly ==
    /\ pc = "single_infer"
    /\ \E d \in generate_answers(qn_uuid_data \cap {1}) : answers_dict' = d
    /\ Log(<<Call("generate_answers", resident.dir)>>)
    /\ pc' = "single_write"
    /\ UNCHANGED <<FLAGS, err, bestmodel_dir, ema_bestmodel_dir,
                   partial_answers, idx, qn_uuid_data>>
    /\ UNCHANGED_env /\ UNCHANGED_fs /\ UNCHANGED_session
    /\ UNCHANGED_tags

\* answers_dict = generate_answers(...): one answer per uuid of the batch
SingleInfer ==
    /\ pc = "single_infer"
    /\ \E d \in generate_answers(qn_uuid_data) : answers_dict' = d
    /\ Log(<<Call("generate_answers", resident.dir)>>)
    /\ pc' = "single_write"
    /\ UNCHANGED <<FLAGS, err, bestmodel_dir, ema_bestmodel_dir,
                   partial_answers, idx, qn_uuid_data>>
    /\ UNCHANGED_env /\ UNCHANGED_fs /\ UNCHANGED_session
    /\ UNCHANGED_tags

\* the file is written inside the with block, which then ends
SingleWrite ==
    /\ pc = "single_write"
    /\ out' = answers_dict
    /\ fs_files' = fs_files \cup {FLAGS.json_out_path}
    /\ Log(<<Call("write", FLAGS.json_out_path)>>)
    /\ CloseSession
    /\ pc' = "done"
    /\ UNCHANGED <<FLAGS, err, fs_dirs, created, ckpt, init_args>>
    /\ UNCHANGED_env /\ UNCHANGED_locals

-----------------------------------------------------------------------------

Next ==
    \/ CheckArgv \/ CheckPython \/ DefineTrainDir \/ LoadGlove \/ BuildModel
    \/ Dispatch \/ Unwind
    \/ TrainMakeDir \/ TrainLogFile \/ TrainSaveFlags \/ TrainMakeBestDir
    \/ TrainMakeEmaDir \/ TrainOpenSession \/ TrainInitialize \/ TrainRun
    \/ ShowOpenSession \/ ShowInitialize \/ ShowRun
    \/ EvalCheckPaths \/ EvalBuildTagMaps \/ EvalBranch
    \/ EnsembleRead \/ EnsembleOpenSession \/ EnsembleInitialize
    \/ EnsembleInfer \/ EnsembleAggregate \/ EnsembleWrite
    \/ SingleRead \/ SingleOpenSession \/ SingleInitialize \/ SingleInfer
    \/ SingleWrite

Spec == Init /\ [][Next]_vars

\* A base model whose per-example records do not cover the whole batch: the
\* condition section 7 of the design names IncompleteEnsembleDataError.
\* generate_partial_answers returns the records of all examples but one.
EnsembleInferIncomplete ==
    /\ pc = "ens_infer"
    /\ Cardinality({ k \in 1..Len(partial_answers) :
                        partial_answers[k].uuids # json_in }) < MaxIncomplete
    /\ \E u \in qn_uuid_data :
          partial_answers' =
              Append(partial_answers,
                     generate_partial_answers(resident, qn_uuid_data \ {u}))
    /\ Log(<<Call("generate_partial_answers", resident.dir)>>)
    /\ CloseSession
    /\ idx' = idx + 1
    /\ pc' = "ens_loop"
    /\ UNCHANGED <<FLAGS, err, ckpt, init_args, bestmodel_dir, ema_bestmodel_dir,
                   qn_uuid_data, answers_dict>>
    /\ UNCHANGED_env /\ UNCHANGED_fs
    /\ UNCHANGED_tags

NextIncomplete == Next \/ EnsembleInferIncomplete

\* main with base models that may return incomplete record sets
SpecIncomplete == Init /\ [][NextIncomplete]_vars

Terminated == pc \in {"done", "error"}

TypeOK ==
    /\ FLAGS.mode \in Modes
    /\ pc \in STRING
    /\ sess_open \in 0..1
    /\ idx \in 0..num_base_models
    /\ Len(partial_answers) <= num_base_models

-----------------------------------------------------------------------------
(* Observations on the log of calls *)

RECURSIVE CountOp(_, _)
CountOp(log, op) ==
    IF log = <<>> THEN 0
    ELSE (IF Head(log).op = op THEN 1 ELSE 0) + CountOp(Tail(log), op)

Ops(log) == { log[k].op : k \in 1..Len(log) }

\* initialize_model calls get_checkpoint_state exactly once, on entry
InitializeModelCalls == CountOp(calls, "get_checkpoint_state")

PreflightPassed == argv_len = 1 /\ py_major = 3

-----------------------------------------------------------------------------
(* C1 *)

NoNameNoTrainDir ==
    /\ cmdline.mode \in {"train", "show_examples"}
    /\ cmdline.experiment_name = <<>>
    /\ cmdline.train_dir = <<>>

\* C1: a train or show_examples run with neither experiment_name nor train_dir
\* never gets past the check of line 135; when it has terminated it has ended
\* in the error of line 136 (given the argv and Python checks passed), and in
\* every state of the run no directory was created, no file was read or
\* written, no checkpoint was looked up and no session was opened.
C1_FailsBeforeTouchingFilesystem ==
    NoNameNoTrainDir =>
        /\ pc \in {"main", "check_python", "define_train_dir", "error"}
        /\ (Terminated /\ PreflightPassed =>
                pc = "error" /\ err.kind = "NeedExperimentNameOrTrainDir")
        /\ calls = <<>>
        /\ created = {}
        /\ fs_files = {}
        /\ out = NoDict
        /\ sess_open = 0
        /\ resident = NoParams

C1_Witness ==
    /\ NoNameNoTrainDir
    /\ cmdline.mode = "show_examples"
    /\ pc = "error"
    /\ err.kind = "NeedExperimentNameOrTrainDir"

-----------------------------------------------------------------------------
(* C2 *)

EvalPathMissing ==
    /\ cmdline.mode = "official_eval"
    /\ (cmdline.json_in_path = <<>> \/ cmdline.ckpt_load_dir = <<>>)

\* C2: an official_eval run with an empty json_in_path or an empty
\* ckpt_load_dir never calls initialize_model, whatever single_ensemble is, and
\* when it has terminated it has ended in the error of line 212 or line 214
\* (given the argv and Python checks passed).
C2_NoCheckpointLoadOnMissingEvalPath ==
    EvalPathMissing =>
        /\ InitializeModelCalls = 0
        /\ Ops(calls) \cap {"restore", "global_variables_initializer"} = {}
        /\ pc # "done"
        /\ (Terminated /\ PreflightPassed =>
                /\ pc = "error"
                /\ err.kind = (IF cmdline.json_in_path = <<>>
                               THEN "NeedJsonInPath" ELSE "NeedCkptLoadDir"))

C2_Witness ==
    /\ EvalPathMissing
    /\ cmdline.json_in_path # <<>>
    /\ cmdline.single_ensemble = "ensemble"
    /\ pc = "error"
    /\ err.kind = "NeedCkptLoadDir"

-----------------------------------------------------------------------------
(* C3 *)

FatalPreconditions ==
    {"NeedExperimentNameOrTrainDir", "NeedJsonInPath", "NeedCkptLoadDir",
     "UnexpectedMode"}

\* C3: when a run ends in one of the fatal precondition errors (no experiment
\* name and no train dir, no json_in_path, no ckpt_load_dir, unexpected mode),
\* neither get_glove nor QAModel has been called.
C3_PreconditionsBeforeExpensiveWork ==
    (pc = "error" /\ err.kind \in FatalPreconditions) =>
        Ops(calls) \cap {"get_glove", "QAModel"} = {}

-----------------------------------------------------------------------------
(* C4 *)

\* the statements of main that call initialize_model
InitSites == {"train_init", "show_init", "ens_init", "single_init"}

\* what a step appended to calls
Added == SubSeq(calls', Len(calls) + 1, Len(calls'))

InitializeModelOutcome ==
    LET found == CheckpointFound(ckpt')
        expect == init_args'.expect_exists
        dir == init_args'.train_dir
    IN  /\ CountOp(Added, "get_checkpoint_state") = 1
        /\ found =>
              /\ resident'.kind = "restored" /\ resident'.dir = dir
              /\ Ops(Added) = {"get_checkpoint_state", "restore"}
              /\ err' = NoErr /\ pc' \notin {"unwind", "error"}
        /\ (~found /\ expect) =>
              /\ err' = Exception("NoCheckpoint", dir)
              /\ pc' = "unwind"
              /\ resident' = resident
              /\ Ops(Added) = {"get_checkpoint_state"}
        /\ (~found /\ ~expect) =>
              /\ resident' = Fresh
              /\ Ops(Added) =
                     {"get_checkpoint_state", "global_variables_initializer"}
              /\ err' = NoErr /\ pc' \notin {"unwind", "error"}

\* C4: every call of initialize_model(dir, expect_exists) has the outcome that
\* (checkpoint found, expect_exists) determines: found -> parameters restored
\* from dir, no initializer run, no error; not found and expect_exists -> the
\* error "There is no saved checkpoint at dir", the session's parameters left
\* as they were; not found and not expect_exists -> fresh parameters, no error.
C4_InitializeModelOutcome ==
    [][(pc \in InitSites) => InitializeModelOutcome]_vars

C4_Witness ==
    /\ pc = "unwind"
    /\ init_args.expect_exists
    /\ ~CheckpointFound(ckpt)
    /\ err = Exception("NoCheckpoint", init_args.train_dir)
    /\ err.dir # <<>>
    /\ resident = Uninitialized

-----------------------------------------------------------------------------
(* C5 *)

\* the tag a best-checkpoint directory carries in its name, "" for any other
DirTag(dir) ==
    LET name == IF dir = <<>> THEN "" ELSE dir[Len(dir)]
    IN  IF name = "best_checkpoint" THEN "raw"
        ELSE IF name \in {"ema_best_checkpoint"} \cup
                    { "ema_best_checkpoint_" \o ToString(i) : i \in 1..num_base_models }
             THEN "ema"
             ELSE ""

FlagTag == IF FLAGS.load_ema_checkpoint THEN "ema" ELSE "raw"

\* C5 as stated: whenever parameters have been restored, the variable set is
\* the one load_ema_checkpoint selects, and a best-checkpoint directory it was
\* read from carries the same tag as the variable set.
C5_DirectoryAndVariablesSameTag ==
    resident.kind = "restored" =>
        /\ resident.vars = FlagTag
        /\ (DirTag(resident.dir) # "" => DirTag(resident.dir) = resident.vars)

\* C5 amended: whenever parameters have been restored, the variable set is the
\* one load_ema_checkpoint selects, at every load site; the directory carries
\* the same tag in show_examples mode, is always an ema_best_checkpoint_k
\* directory in official_eval mode and is the training directory in train mode.
C5_VariablesFollowFlag ==
    resident.kind = "restored" =>
        /\ resident.vars = FlagTag
        /\ (FLAGS.mode = "show_examples" => DirTag(resident.dir) = resident.vars)
        /\ (FLAGS.mode = "official_eval" => DirTag(resident.dir) = "ema")
        /\ (FLAGS.mode = "train" => resident.dir = FLAGS.train_dir)

C5_Witness ==
    /\ resident.kind = "restored"
    /\ FLAGS.mode = "official_eval"
    /\ ~FLAGS.load_ema_checkpoint
    /\ resident.vars = "raw"
    /\ DirTag(resident.dir) = "ema"

-----------------------------------------------------------------------------
(* C6 *)

\* position of the last call of op in log, 0 when there is none
LastIndex(log, op) ==
    LET S == { k \in 1..Len(log) : log[k].op = op }
    IN  IF S = {} THEN 0 ELSE CHOOSE k \in S : \A j \in S : j <= k

EvalPathsGiven ==
    /\ cmdline.mode = "official_eval"
    /\ cmdline.json_in_path # <<>>
    /\ cmdline.ckpt_load_dir # <<>>

EnsembleRun == EvalPathsGiven /\ cmdline.single_ensemble = "ensemble"

SingleRun == EvalPathsGiven /\ cmdline.single_ensemble = "single"

AggregatorCalls == CountOp(calls, "generate_ensemble_answers")

\* C6: generate_ensemble_answers is called at most once in any run and exactly
\* once in an ensemble run that completes; when it has been called, all
\* num_base_models = 7 record sets are in partial_answers, each produced from
\* restored parameters over the whole batch, and the batch it was given was
\* read after the last generate_partial_answers call. With fewer than 7 record
\* sets it has not been called.
C6_AggregatorOnceAfterAllModels ==
    /\ AggregatorCalls <= 1
    /\ (EnsembleRun /\ pc = "done") => AggregatorCalls = 1
    /\ ~EnsembleRun => AggregatorCalls = 0
    /\ Len(partial_answers) < 7 => AggregatorCalls = 0
    /\ AggregatorCalls = 1 =>
          /\ Len(partial_answers) = 7
          /\ CountOp(calls, "restore") = 7
          /\ CountOp(calls, "generate_partial_answers") = 7
          /\ \A k \in 1..Len(partial_answers) :
                /\ partial_answers[k].kind = "restored"
                /\ partial_answers[k].uuids = json_in
          /\ LastIndex(calls, "generate_partial_answers")
                 < LastIndex(calls, "get_json_data")
          /\ LastIndex(calls, "get_json_data")
                 < LastIndex(calls, "generate_ensemble_answers")
          /\ qn_uuid_data = json_in

C6_Witness ==
    /\ EnsembleRun
    /\ pc = "ens_write"
    /\ AggregatorCalls = 1
    /\ Len(partial_answers) = 7

-----------------------------------------------------------------------------
(* C7 *)

\* ckpt_load_dir/ema_best_checkpoint_k
BaseModelDir(k) ==
    cmdline.ckpt_load_dir \o <<"ema_best_checkpoint_" \o ToString(k)>>

Lookups == SelectSeq(calls, LAMBDA c : c.op = "get_checkpoint_state")

\* C7: in an ensemble run the checkpoint directories are looked up in the
\* order 1, 2, ..., each after one more read of the input batch, and at every
\* point of the loop the k-th element of partial_answers was produced from the
\* parameters restored from ckpt_load_dir/ema_best_checkpoint_k.
C7_RecordsTraceToModelIndex ==
    EnsembleRun =>
        /\ \A k \in 1..Len(Lookups) : Lookups[k].arg = BaseModelDir(k)
        /\ Len(partial_answers) = idx
        /\ \A k \in 1..Len(partial_answers) :
              /\ partial_answers[k].model = BaseModelDir(k)
              /\ partial_answers[k].kind = "restored"
        /\ CountOp(calls, "generate_partial_answers") = Len(partial_answers)
        /\ (pc = "ens_init" =>
              /\ CountOp(calls, "get_json_data") = idx + 1
              /\ Len(Lookups) = idx)
        /\ (pc = "ens_infer" =>
              /\ resident = Restored(resident.vars, BaseModelDir(idx + 1))
              /\ CountOp(calls, "get_json_data") = idx + 1
              /\ Len(Lookups) = idx + 1)

C7_Witness ==
    /\ EnsembleRun
    /\ pc = "ens_loop"
    /\ Len(partial_answers) = 7
    /\ partial_answers[7].model = BaseModelDir(7)
    /\ partial_answers[1].model = BaseModelDir(1)

-----------------------------------------------------------------------------
(* C8 *)

\* C8: in a single-model official_eval run with both paths set, a terminated
\* run has called initialize_model exactly once, on
\* ckpt_load_dir/ema_best_checkpoint_1 with expect_exists = True; parameters
\* are never freshly initialised and neither generate_partial_answers nor
\* generate_ensemble_answers is called; generate_answers is called at most
\* once, on the restored parameters, and exactly once in a run that completes,
\* whose output file then holds exactly the mapping generate_answers returned.
C8_SingleModeOneLoadOneInference ==
    SingleRun =>
        /\ InitializeModelCalls <= 1
        /\ (InitializeModelCalls = 1 =>
              init_args = [train_dir |-> BaseModelDir(1), expect_exists |-> TRUE])
        /\ (Terminated /\ PreflightPassed => InitializeModelCalls = 1)
        /\ CountOp(calls, "generate_answers") <= 1
        /\ (\A k \in 1..Len(calls) :
              calls[k].op = "generate_answers" => calls[k].arg = BaseModelDir(1))
        /\ Ops(calls) \cap {"generate_ensemble_answers", "generate_partial_answers",
                            "global_variables_initializer"} = {}
        /\ (pc = "done" =>
              /\ CountOp(calls, "restore") = 1
              /\ CountOp(calls, "generate_answers") = 1
              /\ qn_uuid_data = json_in
              /\ out = answers_dict
              /\ FLAGS.json_out_path \in fs_files)

C8_Witness ==
    /\ SingleRun
    /\ pc = "done"
    /\ CountOp(calls, "generate_answers") = 1
    /\ out = answers_dict
    /\ DOMAIN out = 1..2

-----------------------------------------------------------------------------
(* C9 *)

\* C9: at most one session is open in any state; the session holds parameters
\* only while it is open; between two models of the ensemble loop no session
\* is open; and a run that has terminated, normally or by an error raised
\* inside a with block, has no session open.
C9_OneSessionAtATime ==
    /\ sess_open \in {0, 1}
    /\ (sess_open = 0 <=> resident = NoParams)
    /\ (pc \in {"ens_loop", "ens_open", "ens_write"} => sess_open = 0)
    /\ (Terminated => sess_open = 0)

C9_Witness ==
    /\ EnsembleRun
    /\ pc = "error"
    /\ err.kind = "NoCheckpoint"
    /\ Len(partial_answers) >= 1
    /\ CountOp(calls, "Session") = Len(partial_answers) + 1
    /\ sess_open = 0

-----------------------------------------------------------------------------
(* C10 *)

\* C10: an official_eval run that has raised an error has not opened or
\* written json_out_path; the output file is written at most once, and when
\* it has been written every inference pass is over: generate_answers has
\* returned in single mode, all 7 generate_partial_answers calls and the
\* aggregation have returned in ensemble mode.
C10_NoOutputOnFailedRun ==
    cmdline.mode = "official_eval" =>
        /\ (pc \in {"unwind", "error"} =>
              /\ FLAGS.json_out_path \notin fs_files
              /\ out = NoDict
              /\ CountOp(calls, "write") = 0)
        /\ CountOp(calls, "write") <= 1
        /\ (FLAGS.json_out_path \in fs_files <=> CountOp(calls, "write") = 1)
        /\ (CountOp(calls, "write") = 1 =>
              /\ pc = "done"
              /\ out = answers_dict
              /\ IF cmdline.single_ensemble = "ensemble"
                 THEN /\ CountOp(calls, "generate_partial_answers") = 7
                      /\ AggregatorCalls = 1
                 ELSE CountOp(calls, "generate_answers") = 1)

C10_Witness ==
    /\ EnsembleRun
    /\ pc = "error"
    /\ err = Exception("NoCheckpoint", BaseModelDir(7))
    /\ CountOp(calls, "generate_partial_answers") = 6
    /\ FLAGS.json_out_path \notin fs_files

-----------------------------------------------------------------------------
(* C11 *)

DefaultedFlags == {"train_dir", "glove_path"}

FlagsDefaulted ==
    /\ \A f \in (DOMAIN FLAGS) \ DefaultedFlags : FLAGS[f] = cmdline[f]
    /\ FLAGS.train_dir \in
           {cmdline.train_dir,
            os_path_join(EXPERIMENTS_DIR, cmdline.experiment_name)}
    /\ FLAGS.glove_path \in
           {cmdline.glove_path,
            os_path_join(DEFAULT_DATA_DIR, <<"glove.42B.300d.txt">>)}
    /\ (cmdline.train_dir # <<>> => FLAGS.train_dir = cmdline.train_dir)
    /\ (cmdline.glove_path # <<>> => FLAGS.glove_path = cmdline.glove_path)
    /\ (pc \in {"main", "check_python", "define_train_dir"} => FLAGS = cmdline)
    /\ (Ops(calls) # {} => FLAGS.train_dir # <<>> /\ FLAGS.glove_path # <<>>)

-----------------------------------------------------------------------------
(* C12 *)

InferenceOps == {"check_f1_em", "generate_answers", "generate_partial_answers"}

\* the call at position k of log runs in a session in which parameters were
\* restored from the directory the call reports
RunsOnRestored(log, k) ==
    \E j \in 1..(k - 1) :
        /\ log[j].op = "restore"
        /\ log[j].arg = log[k].arg
        /\ \A i \in j..k : log[i].op # "Session"

\* C12: in show_examples and official_eval runs every inference call
\* (check_f1_em, generate_answers, generate_partial_answers) follows a
\* successful restore in the same session, parameters are never freshly
\* initialised, and a session whose required load failed makes no inference
\* call; global_variables_initializer is run in train mode only.
C12_NoInferenceOnFreshParameters ==
    /\ ("global_variables_initializer" \in Ops(calls) => cmdline.mode = "train")
    /\ (resident.kind = "fresh" => cmdline.mode = "train")
    /\ cmdline.mode \in {"show_examples", "official_eval"} =>
          /\ \A k \in 1..Len(calls) :
                calls[k].op \in InferenceOps => RunsOnRestored(calls, k)
          /\ (pc \in {"show_run", "single_infer", "ens_infer"} =>
                resident.kind = "restored")
          /\ (pc \in {"unwind", "error"} /\ err.kind = "NoCheckpoint" =>
                /\ init_args.expect_exists
                /\ LastIndex(calls, "restore") < LastIndex(calls, "Session")
                /\ \A k \in 1..Len(calls) :
                      calls[k].op \in InferenceOps =>
                          k < LastIndex(calls, "Session"))

C12_Witness ==
    /\ cmdline.mode = "show_examples"
    /\ pc = "done"
    /\ calls[Len(calls)].op = "check_f1_em"
    /\ RunsOnRestored(calls, Len(calls))

-----------------------------------------------------------------------------
(* C13 *)

TrainRunGiven ==
    /\ cmdline.mode = "train"
    /\ (cmdline.experiment_name # <<>> \/ cmdline.train_dir # <<>>)

FlagsJson == os_path_join(FLAGS.train_dir, <<"flags.json">>)

\* C13 as stated, the order of the directories and the dump: when flags.json
\* has been written, best_checkpoint and ema_best_checkpoint exist.
C13_DumpAfterSubdirectories ==
    (TrainRunGiven /\ FlagsJson \in fs_files) =>
        {bestmodel_dir, ema_bestmodel_dir} \subseteq fs_dirs

\* the filesystem and session steps of a train run, in program order
TrainSteps ==
    SelectSeq(calls, LAMBDA c : c.op \in
        {"makedirs", "FileHandler", "write", "Session", "get_checkpoint_state",
         "restore", "global_variables_initializer", "train"})

MakeDirs(dir) == IF dir \in dirs0 THEN <<>> ELSE <<Call("makedirs", dir)>>

\* the steps of a complete train run that found found_ckpt in train_dir
ExpectedTrainSteps(found_ckpt) ==
    MakeDirs(FLAGS.train_dir)
    \o <<Call("FileHandler", os_path_join(FLAGS.train_dir, <<"log.txt">>)),
         Call("write", FlagsJson)>>
    \o MakeDirs(bestmodel_dir)
    \o MakeDirs(ema_bestmodel_dir)
    \o <<Call("Session", <<>>),
         Call("get_checkpoint_state", FLAGS.train_dir),
         IF found_ckpt THEN Call("restore", FLAGS.train_dir)
         ELSE Call("global_variables_initializer", <<>>),
         Call("train", IF found_ckpt THEN FLAGS.train_dir ELSE <<>>)>>

IsPrefix(a, b) == Len(a) <= Len(b) /\ a = SubSeq(b, 1, Len(a))

\* C13 amended: in train mode the steps happen in this order, each exactly
\* once: the training directory is created if absent, log.txt is opened and
\* flags.json is written, then best_checkpoint and ema_best_checkpoint are
\* created if absent (a directory that exists is reused and is never an
\* error), then a non-required load from the training directory restores the
\* checkpoint found there or initialises fresh parameters when there is none,
\* and only then the training loop starts; a train run with an experiment
\* name or train directory never ends in an error.
C13_TrainStepsInOrder ==
    TrainRunGiven =>
        /\ created \cap dirs0 = {}
        /\ fs_dirs = dirs0 \cup created
        /\ (Terminated /\ PreflightPassed => pc = "done")
        /\ err.kind \notin {"NoCheckpoint"}
        /\ (InitializeModelCalls = 1 =>
              init_args = [train_dir |-> FLAGS.train_dir, expect_exists |-> FALSE])
        /\ \E found_ckpt \in BOOLEAN :
              /\ IsPrefix(TrainSteps, ExpectedTrainSteps(found_ckpt))
              /\ (pc = "done" =>
                    /\ TrainSteps = ExpectedTrainSteps(found_ckpt)
                    /\ found_ckpt = CheckpointFound(ckpt)
                    /\ {FLAGS.train_dir, bestmodel_dir, ema_bestmodel_dir}
                           \subseteq fs_dirs)

C13_Witness ==
    /\ TrainRunGiven
    /\ pc = "done"
    /\ dirs0 = {FLAGS.train_dir, bestmodel_dir}
    /\ created = {ema_bestmodel_dir}
    /\ CheckpointFound(ckpt)
    /\ calls[Len(calls)] = Call("train", FLAGS.train_dir)

-----------------------------------------------------------------------------
(* C14 *)

IncompleteRecordSets ==
    { k \in 1..Len(partial_answers) : partial_answers[k].uuids # json_in }

\* C14: when the record set of some base model does not cover every uuid of
\* the input batch, the ensemble run does not call generate_ensemble_answers,
\* writes no output and does not complete; whenever generate_ensemble_answers
\* has been called, every record set covers the whole batch.
C14_IncompleteRecordsAreFatal ==
    EnsembleRun =>
        /\ (IncompleteRecordSets # {} =>
              /\ AggregatorCalls = 0
              /\ FLAGS.json_out_path \notin fs_files
              /\ pc # "done")
        /\ (AggregatorCalls >= 1 => IncompleteRecordSets = {})

-----------------------------------------------------------------------------
(* C15 *)

-----------------------------------------------------------------------------
(* C16 *)

\* the tag a line of pos_tags.txt holds: the line without its newline, if any
TagOfLine(line) ==
    IF line # <<>> /\ line[Len(line)] = "\n" THEN DropLast(line) ELSE line

\* C16: once the lookup tables are built, pos_tag_id_map sends the tag on
\* 0-based line k of pos_tags.txt to k + 1, with the tag text as key, whether
\* or not the last line ends with a newline, and ne_tag_id_map has exactly 13
\* entries, sending the tag at 0-based index k of all_NE_tag to k + 1.
C16_TagIdsByPosition ==
    pos_tag_lines # <<>> =>
        /\ \A k \in 1..Len(pos_tag_lines) :
              /\ TagOfLine(pos_tag_lines[k]) \in DOMAIN pos_tag_id_map
              /\ pos_tag_id_map[TagOfLine(pos_tag_lines[k])] = k
        /\ Cardinality(DOMAIN ne_tag_id_map) = 13
        /\ \A k \in 1..13 : ne_tag_id_map[all_NE_tag[k]] = k

-----------------------------------------------------------------------------
(* C17 *)

BadSingleEnsemble ==
    EvalPathsGiven /\ cmdline.single_ensemble \notin {"ensemble", "single"}

EvalWorkOps ==
    {"get_json_data", "Batcher", "Session", "get_checkpoint_state", "restore",
     "global_variables_initializer", "generate_answers",
     "generate_partial_answers", "generate_ensemble_answers", "write"}

\* C17: an official_eval run with both paths set and a single_ensemble value
\* other than "ensemble" and "single" (the default "" included) ends at the
\* assert of line 262 without having read a batch, opened a session, looked
\* up a checkpoint or written anything; inference calls occur in official_eval
\* runs only when single_ensemble is "ensemble" or "single".
C17_OnlySingleOrEnsembleReachInference ==
    /\ BadSingleEnsemble =>
          /\ Ops(calls) \cap EvalWorkOps = {}
          /\ sess_open = 0
          /\ fs_files = {}
          /\ out = NoDict
          /\ pc # "done"
          /\ (Terminated /\ PreflightPassed =>
                pc = "error" /\ err.kind = "AssertionError")
    /\ (cmdline.mode = "official_eval" /\ Ops(calls) \cap InferenceOps # {}) =>
          cmdline.single_ensemble \in {"ensemble", "single"}

C17_Witness ==
    /\ BadSingleEnsemble
    /\ cmdline.single_ensemble = ""
    /\ pc = "error"
    /\ err.kind = "AssertionError"
    /\ pos_tag_lines # <<>>

-----------------------------------------------------------------------------
(* C18 *)

\* C18: in an ensemble run the directories are looked up in the order
\* 1, 2, ... and the first lookup that finds no checkpoint ends the run: if it
\* is the k-th, the error names ema_best_checkpoint_k, exactly k - 1 record
\* sets have been collected, from the k - 1 restored checkpoints, no directory
\* after the k-th has been looked up, generate_ensemble_answers has not been
\* called and nothing has been written.
C18_EnsembleFailsAtFirstMissing ==
    EnsembleRun =>
        /\ "global_variables_initializer" \notin Ops(calls)
        /\ \A k \in 1..Len(Lookups) : Lookups[k].arg = BaseModelDir(k)
        /\ CountOp(calls, "restore") \in {Len(Lookups) - 1, Len(Lookups)}
        /\ (CountOp(calls, "restore") < Len(Lookups) =>
              /\ pc \in {"unwind", "error"}
              /\ err = Exception("NoCheckpoint", BaseModelDir(Len(Lookups))))
        /\ (err.kind = "NoCheckpoint" =>
              /\ pc \in {"unwind", "error"}
              /\ ~CheckpointFound(ckpt)
              /\ err.dir = BaseModelDir(Len(Lookups))
              /\ Len(partial_answers) = Len(Lookups) - 1
              /\ CountOp(calls, "restore") = Len(Lookups) - 1
              /\ CountOp(calls, "generate_partial_answers") = Len(Lookups) - 1
              /\ AggregatorCalls = 0
              /\ CountOp(calls, "write") = 0
              /\ fs_files = {}
              /\ out = NoDict)

C18_Witness ==
    /\ EnsembleRun
    /\ pc = "error"
    /\ err = Exception("NoCheckpoint", BaseModelDir(3))
    /\ Len(Lookups) = 3
    /\ Len(partial_answers) = 2
    /\ AggregatorCalls = 0

-----------------------------------------------------------------------------
(* C19 *)

StaleCkpt == [state |-> TRUE, data |-> FALSE, index |-> FALSE]

InitializeModelFindsCheckpoint ==
    /\ "restore" \in Ops(Added) <=> (ckpt'.state /\ (ckpt'.data \/ ckpt'.index))
    /\ ckpt' \in {StaleCkpt, NoCkpt} =>
          /\ "restore" \notin Ops(Added)
          /\ resident'.kind # "restored"
          /\ IF init_args'.expect_exists
             THEN /\ pc' = "unwind"
                  /\ err' = Exception("NoCheckpoint", init_args'.train_dir)
                  /\ resident' = resident
             ELSE /\ resident' = Fresh
                  /\ "global_variables_initializer" \in Ops(Added)
                  /\ err' = NoErr

\* C19: a call of initialize_model restores parameters exactly when the
\* directory holds a checkpoint-state record and the file it points to, or
\* that path with suffix .index, exists; a state record that points to a
\* deleted file is handled like a directory without a state record: the error
\* of line 115 when expect_exists is true, fresh parameters when it is false,
\* and no restore in either case.
C19_StaleRecordIsNoCheckpoint ==
    [][(pc \in InitSites) => InitializeModelFindsCheckpoint]_vars

C19_Witness ==
    /\ cmdline.mode = "train"
    /\ pc = "train_run"
    /\ ckpt = StaleCkpt
    /\ resident = Fresh
    /\ "restore" \notin Ops(calls)

-----------------------------------------------------------------------------
(* C20 *)

\* C20: a run in a mode other than train creates no directory and leaves the
\* training tree as it was, opens no log file and writes no flags.json; a
\* show_examples run writes no file at all and the only file an official_eval
\* run writes is json_out_path.
C20_OnlyTrainWritesRunMetadata ==
    cmdline.mode # "train" =>
        /\ created = {}
        /\ fs_dirs = dirs0
        /\ Ops(calls) \cap {"makedirs", "FileHandler"} = {}
        /\ fs_files \subseteq
               (IF cmdline.mode = "official_eval"
                THEN {FLAGS.json_out_path} ELSE {})
        /\ \A k \in 1..Len(calls) :
              calls[k].op = "write" => calls[k].arg = FLAGS.json_out_path

C20_Witness ==
    /\ cmdline.mode = "show_examples"
    /\ pc = "done"
    /\ dirs0 = {FLAGS.train_dir, bestmodel_dir, ema_bestmodel_dir}
    /\ fs_dirs = dirs0
    /\ fs_files = {}

====
